---- MODULE Spec2Model ----
(***************************************************************************)
(* A model of the "67" downloader: the batch orchestrator (main.rs,        *)
(* run_batch / download_single) and the resumable chunked transfer         *)
(* (downloader.rs, download / get_content_length).                         *)
(*                                                                         *)
(* Jobs are the futures that run_batch builds, one per URL.  They run on   *)
(* one task (buffer_unordered), so everything a job does between two       *)
(* awaits is one atomic action here; each action is the continuation of a  *)
(* job after the await it was suspended at, up to its next await or its    *)
(* return.  The remote server and the file system are the environment:     *)
(* their answers are chosen with \E from small sets.                       *)
(*                                                                         *)
(* The format selector (formats.rs, select_format) and parse_video_id      *)
(* (extractor.rs) are functions without state: they are operators here,    *)
(* applied by one action each to a catalog or an input drawn in the        *)
(* initial state (SelectSpec, ParseSpec).                                  *)
(***************************************************************************)
EXTENDS Integers, FiniteSets, Sequences, TLC

\* ---------------------------------------------------------------- bounds
\* number of URLs a batch file holds at most
NumJobs == 3
\* the remote resource is at most this many chunks long (plus one byte)
MaxChunks == 2
\* invocations of the program on the same destination (single-URL runs)
MaxRuns == 2
\* number of URLs of the batches whose termination is checked (at most NumJobs)
FairJobs == 2
\* number of URLs of the batches run with colliding output paths (at most NumJobs)
SharedJobs == 2

\* number of formats a catalog holds at most
MaxFormats == 3

\* largest value of --jobs tried on a batch of one URL
MaxRequested == 12

\* ------------------------------------------------------ program constants
CHUNK_SIZE == 1048576
PARTIAL_CONTENT == 206
MIN_JOBS == 1
MAX_JOBS == 10
ID_LEN == 11

Jobs == 1..NumJobs
Absent == -1

Min(a, b) == IF a < b THEN a ELSE b
Max(a, b) == IF a > b THEN a ELSE b

\* sizes around the chunk boundaries: 0, 1, C-1, C, C+1, 2C-1, 2C, 2C+1, ...
Sizes ==
  {s \in UNION {{k * CHUNK_SIZE - 1, k * CHUNK_SIZE, k * CHUNK_SIZE + 1} : k \in 0..MaxChunks} : s >= 0}

\* sizes of the resources of a batch: one byte, fetched with one range request
BatchSizes == {1}

\* the statuses a server answers a range request with: around the ends of
\* 200..299, and 206, 404
Statuses == {199, 200, 206, 299, 300, 404}

\* the statuses the servers of a batch answer a range request with
BatchStatuses == {206, 404}

\* values of --jobs: below the range, in it, above it
RequestedJobs == {0, 2, MAX_JOBS + 1}

VARIABLES
  batch_file,    \* args.batch_file.is_some()
  args_jobs,     \* args.jobs, as given on the command line
  list_formats,  \* args.list_formats
  urls_len,      \* urls.len(): the URLs of the batch file (1 in a single-URL run)
  output,        \* per job: the path download_single passes to download
  main,          \* run(): "init", "running", then its result "Ok" or "Err"
  runs,          \* how many times the program has been invoked
  jobs,          \* run_batch: the clamped concurrency limit
  semaphore,     \* run_batch: permits available in the Semaphore
  stream_pos,    \* run_batch: futures the buffered stream has taken from the iterator
  completed,     \* run_batch: AtomicUsize completed
  failed,        \* run_batch: AtomicUsize failed
  pc,            \* per job: where it is suspended
  err,           \* per job: the error it returned, "none" otherwise
  total_size,    \* download: total_size (Absent before discovery)
  downloaded,    \* download: downloaded
  ranges,        \* per job: the byte ranges requested in the chunk loop, as <<start, end>>
  first_range,   \* per job: the first of them, <<>> when none yet
  resume_from,   \* per job: length of the .part file found by download (Absent: none found)
  last_io,       \* per job: "ok", or the network or file operation that last failed for it
  handle,        \* per job: where the file it has open is: "none", "part", "dest", "lost"
  status,        \* per job: response.status() of the range response it holds (Absent: none)
  remote,        \* environment: length of the resource behind the job's URL
  part,          \* file system: length of "<output>.part" per path (Absent: no such file)
  dest,          \* file system: length of "<output>" per path (Absent: no such file)
  formats,       \* select_format: the catalog, a sequence of Format records
  format_str,    \* select_format: the value of --format, a sequence of characters
  audio_only,    \* select_format: the value of --audio-only
  selected,      \* select_format: what it returned (NotCalled before the call)
  input,         \* parse_video_id: its argument, a sequence of characters
  video_id       \* parse_video_id: what it returned (NotParsed before the call)

orch == <<batch_file, args_jobs, list_formats, urls_len, output, runs, jobs, stream_pos>>
ctl == <<main, semaphore, completed, failed, pc, err>>
xfer == <<total_size, downloaded, ranges, first_range, resume_from, last_io, handle, status>>
env == <<remote, part, dest>>
call == <<formats, format_str, audio_only, selected, input, video_id>>
vars == <<orch, ctl, xfer, env, call>>

\* main.rs:189-200  the output path of job j: the value of --output when it is
\* given, a file name made from the title of the video otherwise
PathOf(j) == output[j]

\* mutant of Clamp: the upper end of the range is not applied
Clamp_NoUpper(n) == Max(n, MIN_JOBS)

\* main.rs:100  args.jobs.max(1).min(10)
Clamp(n) == Min(Max(n, MIN_JOBS), MAX_JOBS)

\* mutant of BatchResult: any failed job fails the batch
BatchResult_AnyFailure(success, failures) == IF failures > 0 THEN "Err" ELSE "Ok"

\* main.rs:166-170  the result of run_batch from the two counters
BatchResult(success, failures) == IF failures > 0 /\ success = 0 THEN "Err" ELSE "Ok"

\* main.rs:62-67  the exit code of the process
ExitCode == IF main = "Err" THEN 1 ELSE 0

Terminal == {"Completed", "Failed"}

\* jobs the buffered stream holds: taken from the iterator and not yet complete
InBuffer == {j \in Jobs : pc[j] \notin Terminal \cup {"pending"}}

\* ------------------------------------------------------------ job control
\* a job suspends at its next await, at p
Goto(j, p, sem) ==
  /\ pc' = [pc EXCEPT ![j] = p]
  /\ semaphore' = sem
  /\ UNCHANGED <<main, completed, failed, err>>

\* mutant of Finish: a job that fails returns without dropping its permit
Finish_KeepPermit(j, e, sem) ==
  /\ pc' = [pc EXCEPT ![j] = IF e = "none" THEN "Completed" ELSE "Failed"]
  /\ err' = [err EXCEPT ![j] = e]
  /\ IF batch_file
       THEN /\ completed' = IF e = "none" THEN completed + 1 ELSE completed
            /\ failed' = IF e = "none" THEN failed ELSE failed + 1
            /\ semaphore' = IF e = "none" THEN sem + 1 ELSE sem
            /\ main' = main
       ELSE /\ main' = IF e = "none" THEN "Ok" ELSE "Err"
            /\ semaphore' = sem
            /\ UNCHANGED <<completed, failed>>

\* mutant of Finish: every job that returns is counted as completed
Finish_CountAll(j, e, sem) ==
  /\ pc' = [pc EXCEPT ![j] = IF e = "none" THEN "Completed" ELSE "Failed"]
  /\ err' = [err EXCEPT ![j] = e]
  /\ IF batch_file
       THEN /\ completed' = completed + 1
            /\ failed' = IF e = "none" THEN failed ELSE failed + 1
            /\ semaphore' = sem + 1
            /\ main' = main
       ELSE /\ main' = IF e = "none" THEN "Ok" ELSE "Err"
            /\ semaphore' = sem
            /\ UNCHANGED <<completed, failed>>

\* mutant of Finish: a job that fails is not counted
Finish_Uncounted(j, e, sem) ==
  /\ pc' = [pc EXCEPT ![j] = IF e = "none" THEN "Completed" ELSE "Failed"]
  /\ err' = [err EXCEPT ![j] = e]
  /\ IF batch_file
       THEN /\ completed' = IF e = "none" THEN completed + 1 ELSE completed
            /\ failed' = failed
            /\ semaphore' = sem + 1
            /\ main' = main
       ELSE /\ main' = IF e = "none" THEN "Ok" ELSE "Err"
            /\ semaphore' = sem
            /\ UNCHANGED <<completed, failed>>

\* main.rs:129-147 (batch) and main.rs:81, 63-66 (single URL): download_single
\* returns e ("none": Ok).  In a batch the future counts the result and drops
\* its permit; in a single-URL run the result is the result of run().
Finish(j, e, sem) ==
  /\ pc' = [pc EXCEPT ![j] = IF e = "none" THEN "Completed" ELSE "Failed"]
  /\ err' = [err EXCEPT ![j] = e]
  /\ IF batch_file
       THEN /\ completed' = IF e = "none" THEN completed + 1 ELSE completed
            /\ failed' = IF e = "none" THEN failed ELSE failed + 1
            /\ semaphore' = sem + 1
            /\ main' = main
       ELSE /\ main' = IF e = "none" THEN "Ok" ELSE "Err"
            /\ semaphore' = sem
            /\ UNCHANGED <<completed, failed>>

\* main.rs:173-180  download_single up to its first await: parse_video_id
Begin(j, sem) ==
  /\ \E valid \in BOOLEAN :
       IF valid THEN Goto(j, "extract", sem) ELSE Finish(j, "InvalidUrl", sem)
  /\ UNCHANGED <<xfer, env>>

\* ---------------------------------------------------------------- transfer
\* mutant of RangeOf: the end of the range is not cut at the last byte
RangeOf_Uncut(d, t) == <<d, d + CHUNK_SIZE - 1>>

\* downloader.rs:74-79  the range of one iteration of the chunk loop
RangeOf(d, t) == <<d, Min(d + CHUNK_SIZE - 1, t - 1)>>

\* what a step of download leaves behind: where the job goes, its error, the
\* operation that failed, downloaded, the two files and the range it requests
Outcome(next, e, io, d, len, dst, req) ==
  [next |-> next, err |-> e, io |-> io, downloaded |-> d, part |-> len, dest |-> dst, req |-> req]

\* mutant of LoopHead: the .part file is copied to the destination and stays
LoopHead_Copy(d, t, len, dst, fs) ==
  IF d < t THEN Outcome("chunk", "none", "ok", d, len, dst, RangeOf(d, t))
  ELSE IF fs = "rename" \/ len = Absent THEN Outcome("Failed", "Io", "rename", d, len, dst, <<>>)
  ELSE Outcome("Completed", "none", "ok", d, len, len, <<>>)

\* mutant of LoopHead: the loop is entered also when downloaded is the total
LoopHead_Inclusive(d, t, len, dst, fs) ==
  IF d <= t THEN Outcome("chunk", "none", "ok", d, len, dst, RangeOf(d, t))
  ELSE IF fs = "rename" \/ len = Absent THEN Outcome("Failed", "Io", "rename", d, len, dst, <<>>)
  ELSE Outcome("Completed", "none", "ok", d, Absent, len, <<>>)

\* downloader.rs:73-107  the loop test, then either the next range request or
\* the finalization: rename of the .part file (length len) over the
\* destination, which fails when there is no .part file at the path any more
LoopHead(d, t, len, dst, fs) ==
  IF d < t THEN Outcome("chunk", "none", "ok", d, len, dst, RangeOf(d, t))
  ELSE IF fs = "rename" \/ len = Absent THEN Outcome("Failed", "Io", "rename", d, len, dst, <<>>)
  ELSE Outcome("Completed", "none", "ok", d, Absent, len, <<>>)

\* mutant of Resume: an existing .part file is overwritten from byte 0
Resume_Restart(L, dst, size, fs) ==
  IF fs = "create" THEN Outcome("Failed", "Io", "create", 0, L, dst, <<>>)
  ELSE LoopHead(0, size, 0, dst, fs)

\* mutant of Resume: a .part file that is already complete is opened and goes
\* through the chunk loop
Resume_NoShortCircuit(L, dst, size, fs) ==
  IF L # Absent
    THEN IF fs = "metadata" THEN Outcome("Failed", "Io", "metadata", 0, L, dst, <<>>)
         ELSE IF fs = "open" THEN Outcome("Failed", "Io", "open", L, L, dst, <<>>)
         ELSE LoopHead(L, size, L, dst, fs)
    ELSE IF fs = "create" THEN Outcome("Failed", "Io", "create", 0, Absent, dst, <<>>)
         ELSE LoopHead(0, size, 0, dst, fs)

\* downloader.rs:33-57  the resume protocol, with L the length of the .part
\* file (Absent: there is none) and fs the file operation that fails, if any
Resume(L, dst, size, fs) ==
  IF L # Absent
    THEN IF fs = "metadata" THEN Outcome("Failed", "Io", "metadata", 0, L, dst, <<>>)
         ELSE IF L >= size
           THEN IF fs = "rename" THEN Outcome("Failed", "Io", "rename", L, L, dst, <<>>)
                ELSE Outcome("Completed", "none", "ok", L, Absent, L, <<>>)
         ELSE IF fs = "open" THEN Outcome("Failed", "Io", "open", L, L, dst, <<>>)
         ELSE LoopHead(L, size, L, dst, fs)
    ELSE IF fs = "create" THEN Outcome("Failed", "Io", "create", 0, Absent, dst, <<>>)
         ELSE LoopHead(0, size, 0, dst, fs)

\* downloader.rs:52-56, 96  the length of a file of length cur after write_all
\* has written n bytes to it, through a handle opened for append, or through
\* the handle File::create returned, whose offset is the d bytes written so far
Written(cur, d, n, app) == IF app THEN cur + n ELSE Max(cur, d + n)

\* mutant of Body: a failed write removes the .part file
Body_Cleanup(d, t, len, dst, n, fs, at, app) ==
  IF fs \in {"write", "write_partial"} THEN Outcome("Failed", "Io", "write", d, Absent, dst, <<>>)
  ELSE LoopHead(d + n, t, len + n, dst, fs)

\* mutant of Body: a failed write sets downloaded back to 0
Body_Restart(d, t, len, dst, n, fs, at, app) ==
  IF fs \in {"write", "write_partial"} THEN Outcome("Failed", "Io", "write", 0, len, dst, <<>>)
  ELSE LoopHead(d + n, t, IF at = "part" THEN Written(len, d, n, app) ELSE len,
                IF at = "dest" THEN Written(dst, d, n, app) ELSE dst, fs)

\* mutant of Body: downloaded is advanced by the length of the range asked for
Body_CountAsked(d, t, len, dst, n, fs, at, app) ==
  IF fs \in {"write", "write_partial"} THEN Outcome("Failed", "Io", "write", d, len, dst, <<>>)
  ELSE LoopHead(RangeOf(d, t)[2] + 1, t, IF at = "part" THEN Written(len, d, n, app) ELSE len,
                IF at = "dest" THEN Written(dst, d, n, app) ELSE dst, fs)

\* downloader.rs:95-99, then the loop test: a body of n bytes has arrived and
\* is written to the open file, which is at the .part path (at = "part"), or,
\* after a job with the same output path has renamed it, at the destination
\* ("dest") or at no path ("lost"); k of the n bytes get written
Body(d, t, len, dst, n, fs, at, app) ==
  LET k == IF fs = "write" THEN 0 ELSE IF fs = "write_partial" /\ n > 0 THEN n - 1 ELSE n
      len2 == IF at = "part" THEN Written(len, d, k, app) ELSE len
      dst2 == IF at = "dest" THEN Written(dst, d, k, app) ELSE dst
  IN IF k < n \/ fs = "write" THEN Outcome("Failed", "Io", "write", d, len2, dst2, <<>>)
     ELSE LoopHead(d + n, t, len2, dst2, fs)

FsFaults == {"none", "metadata", "open", "create", "rename", "write", "write_partial"}

\* the lengths of the body a server answers a range request with: the range
\* asked for (206), the whole resource (200, Range ignored), one byte less
\* than asked for, nothing
BodyLens(r, len) == {r[2] - r[1] + 1, len, r[2] - r[1], 0}

Request(j, r) ==
  /\ ranges' = [ranges EXCEPT ![j] = @ \cup {r}]
  /\ first_range' = [first_range EXCEPT ![j] = IF @ = <<>> THEN r ELSE @]

\* where an open file is after the .part file of its path has been renamed
\* over the destination
Moved(h) == IF h = "part" THEN "dest" ELSE IF h = "dest" THEN "lost" ELSE h

\* download returns Ok only after the rename (downloader.rs:39-40, 105-107),
\* and returns with its file closed; it goes to the chunk loop with a file open
Apply(j, r, sem) ==
  /\ downloaded' = [downloaded EXCEPT ![j] = r.downloaded]
  /\ handle' = [i \in Jobs |->
                  IF i = j
                    THEN IF r.next # "chunk" THEN "none"
                         ELSE IF handle[j] = "none" THEN "part" ELSE handle[j]
                    ELSE IF r.next = "Completed" /\ PathOf(i) = PathOf(j)
                           THEN Moved(handle[i]) ELSE handle[i]]
  /\ part' = [part EXCEPT ![PathOf(j)] = r.part]
  /\ dest' = [dest EXCEPT ![PathOf(j)] = r.dest]
  /\ last_io' = [last_io EXCEPT ![j] = r.io]
  /\ IF r.req # <<>> THEN Request(j, r.req) ELSE UNCHANGED <<ranges, first_range>>
  /\ IF r.next = "chunk" THEN Goto(j, "chunk", sem) ELSE Finish(j, r.err, sem)

\* downloader.rs:27-57  get_content_length returned Ok(size)
Discover(j, size) ==
  /\ total_size' = [total_size EXCEPT ![j] = size]
  /\ resume_from' = [resume_from EXCEPT ![j] = part[PathOf(j)]]
  /\ \E fs \in FsFaults :
       Apply(j, Resume(part[PathOf(j)], dest[PathOf(j)], size, fs), semaphore)
  /\ UNCHANGED <<remote, status>>

\* a step that touches no file: the job ends with e ("none": Ok) when p is
\* terminal, and suspends at p otherwise; io is the operation that failed
Step(j, p, e, io) ==
  /\ last_io' = [last_io EXCEPT ![j] = io]
  /\ handle' = [handle EXCEPT ![j] = IF p \in Terminal THEN "none" ELSE @]
  /\ IF p \in Terminal THEN Finish(j, e, semaphore) ELSE Goto(j, p, semaphore)
  /\ UNCHANGED <<total_size, downloaded, ranges, first_range, resume_from, status, env>>

\* main.rs:180-207, downloader.rs:18-27, 112  extract_video_info has returned:
\* list the formats or select one, then download starts and sends its HEAD
ExtractReturn(j) ==
  /\ pc[j] = "extract"
  /\ \/ \E e \in {"Http", "ExtractionFailed", "VideoUnavailable", "NoFormats"} :
          Step(j, "Failed", e, "extract")
     \/ /\ list_formats
        /\ Step(j, "Completed", "none", "ok")
     \/ /\ ~list_formats
        /\ \/ \E e \in {"NoFormats", "FormatNotFound"} : Step(j, "Failed", e, "ok")
           \/ Step(j, "Failed", "Http", "client")
           \/ Step(j, "head", "none", "ok")

\* downloader.rs:112-133  the HEAD request has returned: a size, or anything
\* else (a network error, a status that is no success, no usable header),
\* upon which the GET for bytes=0-0 is sent
HeadReturn(j) ==
  /\ pc[j] = "head"
  /\ \/ Discover(j, remote[j])
     \/ Step(j, "probe_range", "none", "head")
     \/ Step(j, "probe_range", "none", "ok")

\* downloader.rs:129-152  the GET for bytes=0-0 has returned
ProbeRangeReturn(j) ==
  /\ pc[j] = "probe_range"
  /\ \/ Step(j, "Failed", "Http", "probe_range")
     \/ Step(j, "Failed", "DownloadFailed", "ok")
     \/ Discover(j, remote[j])
     \/ Step(j, "probe_get", "none", "ok")

\* downloader.rs:152-163  the plain GET has returned
ProbeGetReturn(j) ==
  /\ pc[j] = "probe_get"
  /\ \/ Step(j, "Failed", "Http", "probe_get")
     \/ Step(j, "Failed", "DownloadFailed", "ok")
     \/ Discover(j, remote[j])

\* mutant of Accepted: only 206 is taken for the answer to a range request
Accepted_PartialOnly(s) == s = PARTIAL_CONTENT

\* downloader.rs:88  the statuses that the chunk loop goes on with:
\* StatusCode::is_success (200 to 299) or PARTIAL_CONTENT
Accepted(s) == (200 <= s /\ s <= 299) \/ s = PARTIAL_CONTENT

\* downloader.rs:88-93  a range response with status s is turned down:
\* download returns DownloadFailed, whose message names s, without reading
\* the body
Rejected(j, s) ==
  /\ status' = [status EXCEPT ![j] = s]
  /\ last_io' = [last_io EXCEPT ![j] = "ok"]
  /\ handle' = [handle EXCEPT ![j] = "none"]
  /\ Finish(j, "DownloadFailed", semaphore)
  /\ UNCHANGED <<total_size, downloaded, ranges, first_range, resume_from, env>>

\* downloader.rs:82-107  the range request of the chunk loop has returned: an
\* error of the network, or a response with status s, and then its body; the
\* response is dropped when the loop sends its next request
ChunkReturn(j) ==
  /\ pc[j] = "chunk"
  /\ \/ Step(j, "Failed", "Http", "chunk")
     \/ \E s \in (IF batch_file THEN BatchStatuses ELSE Statuses) :
          IF ~Accepted(s) THEN Rejected(j, s)
          ELSE /\ \E n \in BodyLens(RangeOf(downloaded[j], total_size[j]), remote[j]) :
                    \E fs \in FsFaults :
                      LET r == Body(downloaded[j], total_size[j], part[PathOf(j)],
                                    dest[PathOf(j)], n, fs, handle[j],
                                    resume_from[j] # Absent)
                      IN /\ Apply(j, r, semaphore)
                         /\ status' = [status EXCEPT ![j] =
                                         IF r.next = "chunk" THEN Absent ELSE s]
               /\ UNCHANGED <<total_size, resume_from, remote>>

\* ------------------------------------------------------------------ batch
\* mutant of StartBatch: one slot per URL instead of the clamped limit
StartBatch_Unbounded ==
  /\ batch_file /\ main = "running" /\ jobs = Absent
  /\ \E ok \in BOOLEAN :
       IF ok /\ urls_len > 0
         THEN /\ jobs' = urls_len
              /\ semaphore' = urls_len
              /\ main' = main
         ELSE /\ main' = "Err"
              /\ UNCHANGED <<jobs, semaphore>>
  /\ UNCHANGED <<batch_file, args_jobs, list_formats, urls_len, output, runs,
                 stream_pos, completed, failed, pc, err, xfer, env, call>>

\* main.rs:84-117  run_batch up to the stream: the batch file is read, the
\* limit clamped, the output directory made, the counters and the semaphore
\* created; ok is FALSE when reading the file or making the directory fails
StartBatch ==
  /\ batch_file /\ main = "running" /\ jobs = Absent
  /\ \E ok \in BOOLEAN :
       IF ok /\ urls_len > 0
         THEN /\ jobs' = Clamp(args_jobs)
              /\ semaphore' = Clamp(args_jobs)
              /\ main' = main
         ELSE /\ main' = "Err"
              /\ UNCHANGED <<jobs, semaphore>>
  /\ UNCHANGED <<batch_file, args_jobs, list_formats, urls_len, output, runs,
                 stream_pos, completed, failed, pc, err, xfer, env, call>>

\* main.rs:119-150  buffer_unordered(jobs) takes the next future from the
\* iterator while it holds fewer than jobs of them
Pull(j) ==
  /\ batch_file /\ main = "running" /\ jobs # Absent
  /\ j = stream_pos + 1 /\ j <= urls_len
  /\ Cardinality(InBuffer) < jobs
  /\ stream_pos' = j
  /\ pc' = [pc EXCEPT ![j] = "queued"]
  /\ UNCHANGED <<batch_file, args_jobs, list_formats, urls_len, output, runs, jobs,
                 main, semaphore, completed, failed, err, xfer, env, call>>

\* mutant of Acquire: the future enters download_single without a permit
Acquire_NoPermit(j) ==
  /\ pc[j] = "queued"
  /\ \A i \in Jobs : pc[i] = "queued" => j <= i
  /\ Begin(j, semaphore)
  /\ UNCHANGED <<orch, call>>

\* mutant of Acquire: the futures in the buffer are first polled in any order
Acquire_AnyOrder(j) ==
  /\ pc[j] = "queued"
  /\ semaphore > 0
  /\ Begin(j, semaphore - 1)
  /\ UNCHANGED <<orch, call>>

\* main.rs:127-129  the first poll of a future: it takes a permit and enters
\* download_single; the futures are first polled in the order they were taken
Acquire(j) ==
  /\ pc[j] = "queued"
  /\ \A i \in Jobs : pc[i] = "queued" => j <= i
  /\ semaphore > 0
  /\ Begin(j, semaphore - 1)
  /\ UNCHANGED <<orch, call>>

\* main.rs:152-170  the stream is exhausted: run_batch returns
Collect ==
  /\ batch_file /\ main = "running" /\ jobs # Absent
  /\ stream_pos = urls_len
  /\ InBuffer = {}
  /\ main' = BatchResult(completed, failed)
  /\ UNCHANGED <<orch, semaphore, completed, failed, pc, err, xfer, env, call>>

\* ------------------------------------------------------------- single URL
\* main.rs:80-81  run() without a batch file enters download_single
RunSingle ==
  /\ ~batch_file /\ main = "running" /\ pc[1] = "pending"
  /\ Begin(1, semaphore)
  /\ UNCHANGED <<orch, call>>

\* the program is run once more on the same URL and destination: a new
\* process, the files as the last one left them
Reinvoke ==
  /\ ~batch_file /\ main \in {"Ok", "Err"} /\ runs < MaxRuns
  /\ runs' = runs + 1
  /\ main' = "running"
  /\ pc' = [j \in Jobs |-> "pending"]
  /\ err' = [j \in Jobs |-> "none"]
  /\ total_size' = [j \in Jobs |-> Absent]
  /\ downloaded' = [j \in Jobs |-> 0]
  /\ ranges' = [j \in Jobs |-> {}]
  /\ first_range' = [j \in Jobs |-> <<>>]
  /\ resume_from' = [j \in Jobs |-> Absent]
  /\ last_io' = [j \in Jobs |-> "ok"]
  /\ handle' = [j \in Jobs |-> "none"]
  /\ status' = [j \in Jobs |-> Absent]
  /\ UNCHANGED <<batch_file, args_jobs, list_formats, urls_len, output, jobs,
                 stream_pos, semaphore, completed, failed, env, call>>

\* a job of the batch, or the one of a single-URL run, resumes after an await
JobStep(j) ==
  /\ \/ ExtractReturn(j)
     \/ HeadReturn(j)
     \/ ProbeRangeReturn(j)
     \/ ProbeGetReturn(j)
     \/ ChunkReturn(j)
  /\ UNCHANGED <<orch, call>>

\* -------------------------------------------------------- format selection
\* Strings are sequences of one-character strings.  An Option<u32> that is
\* None is Absent; an Option<String> that is None is NoString.
NoString == "None"

Uppers == <<"A", "B", "C", "D", "E", "F", "G", "H", "I", "J", "K", "L", "M",
            "N", "O", "P", "Q", "R", "S", "T", "U", "V", "W", "X", "Y", "Z">>
Lowers == <<"a", "b", "c", "d", "e", "f", "g", "h", "i", "j", "k", "l", "m",
            "n", "o", "p", "q", "r", "s", "t", "u", "v", "w", "x", "y", "z">>
Digits == {"0", "1", "2", "3", "4", "5", "6", "7", "8", "9"}

\* formats.rs:261  str::to_lowercase, on the ASCII characters
to_lowercase(s) ==
  [i \in DOMAIN s |->
     IF \E k \in DOMAIN Uppers : Uppers[k] = s[i]
       THEN Lowers[CHOOSE k \in DOMAIN Uppers : Uppers[k] = s[i]]
       ELSE s[i]]

\* extractor.rs:325-348  the Format that parse_format builds; video_codec,
\* audio_codec and width say whether the Option is Some, and the two flags
\* are derived from them
Format(itag, container, video_codec, audio_codec, width, height, fps, bitrate, audio_quality, audio_sample_rate, audio_channels) ==
  [format_id |-> itag, container |-> container,
   video_codec |-> video_codec, audio_codec |-> audio_codec,
   height |-> height, fps |-> fps, bitrate |-> bitrate,
   audio_quality |-> audio_quality, audio_sample_rate |-> audio_sample_rate,
   audio_channels |-> audio_channels,
   is_audio_only |-> ~video_codec /\ audio_codec,
   is_video_only |-> video_codec /\ ~audio_codec /\ width]

\* the formats a catalog is made of: three with video and audio (two of them
\* with the same quality score), two with video only (with the same quality
\* score), three with audio only (two of them with the same audio quality
\* score), and one whose mimeType names no codec
Pool ==
  { Format(<<"1", "8">>, "mp4", TRUE, TRUE, TRUE, 360, 30, 500000,
           "AUDIO_QUALITY_LOW", 44100, 2),
    Format(<<"4", "3">>, "webm", TRUE, TRUE, TRUE, 360, 30, 600000,
           "AUDIO_QUALITY_LOW", 44100, 2),
    Format(<<"2", "2">>, "mp4", TRUE, TRUE, TRUE, 720, 30, 1500000,
           "AUDIO_QUALITY_MEDIUM", 44100, 2),
    Format(<<"1", "3", "7">>, "mp4", TRUE, FALSE, TRUE, 1080, 30, 4000000,
           NoString, Absent, Absent),
    Format(<<"2", "4", "8">>, "webm", TRUE, FALSE, TRUE, 1080, 30, 4100000,
           NoString, Absent, Absent),
    Format(<<"1", "4", "0">>, "mp4", FALSE, TRUE, FALSE, Absent, Absent, 128000,
           "AUDIO_QUALITY_MEDIUM", 44100, 2),
    Format(<<"2", "5", "1">>, "webm", FALSE, TRUE, FALSE, Absent, Absent, 128000,
           "AUDIO_QUALITY_MEDIUM", 44100, 2),
    Format(<<"2", "4", "9">>, "webm", FALSE, TRUE, FALSE, Absent, Absent, 50000,
           "AUDIO_QUALITY_ULTRALOW", 48000, 2),
    Format(<<"1", "7">>, "mp4", FALSE, FALSE, FALSE, 144, Absent, Absent,
           NoString, Absent, Absent) }

\* the catalogs: up to MaxFormats formats of the pool, each at most once
Catalogs ==
  {c \in UNION {[1..n -> Pool] : n \in 0..MaxFormats} :
     \A i \in DOMAIN c : \A k \in DOMAIN c : i # k => c[i] # c[k]}

\* values of --format: the four keywords, two of them in other letter case,
\* two ids of the pool (a format with video and audio, an audio-only one) and
\* an id that is not in it
FormatArgs ==
  { <<"b", "e", "s", "t">>, <<"b", "e", "s", "t", "a", "u", "d", "i", "o">>,
    <<"b", "e", "s", "t", "v", "i", "d", "e", "o">>, <<"w", "o", "r", "s", "t">>,
    <<"B", "E", "S", "T">>, <<"W", "o", "r", "s", "t">>,
    <<"2", "2">>, <<"1", "4", "0">>, <<"4", "2">> }

\* formats.rs:90-119  Format::quality_score
quality_score(f) ==
  (IF f.height # Absent THEN f.height * 1000 ELSE 0)
  + (IF f.fps # Absent THEN f.fps * 10 ELSE 0)
  + (IF f.bitrate # Absent THEN f.bitrate \div 1000 ELSE 0)
  + (IF ~f.is_audio_only /\ ~f.is_video_only THEN 500000 ELSE 0)
  + (IF f.container = "mp4" THEN 100 ELSE 0)

\* formats.rs:122-151  Format::audio_quality_score
audio_quality_score(f) ==
  (IF f.audio_quality = NoString THEN 0
   ELSE IF f.audio_quality = "AUDIO_QUALITY_HIGH" THEN 400
   ELSE IF f.audio_quality = "AUDIO_QUALITY_MEDIUM" THEN 300
   ELSE IF f.audio_quality = "AUDIO_QUALITY_LOW" THEN 200
   ELSE 100)
  + (IF f.audio_sample_rate # Absent THEN f.audio_sample_rate \div 100 ELSE 0)
  + (IF f.bitrate # Absent THEN f.bitrate \div 100 ELSE 0)
  + (IF f.audio_channels # Absent THEN f.audio_channels * 50 ELSE 0)

\* what a fallible function returns: Ok with the position, in the catalog, of
\* the format it returns a clone of, or an error
Ok(i) == [ok |-> TRUE, index |-> i, err |-> "none"]
Err(e) == [ok |-> FALSE, index |-> 0, err |-> e]
NotCalled == [ok |-> FALSE, index |-> 0, err |-> "not called"]

\* the keys of the formats of a catalog, by position
QualityScores(fs) == [i \in DOMAIN fs |-> quality_score(fs[i])]
AudioQualityScores(fs) == [i \in DOMAIN fs |-> audio_quality_score(fs[i])]

\* Iterator::max_by_key over the formats at the positions I, in their order,
\* with the keys key: of several elements that are equally maximum the last
\* one is returned
max_by_key(I, key) ==
  CHOOSE i \in I : \A k \in I : key[k] < key[i] \/ (key[k] = key[i] /\ k <= i)

\* Iterator::min_by_key: of several elements that are equally minimum the
\* first one is returned
min_by_key(I, key) ==
  CHOOSE i \in I : \A k \in I : key[k] > key[i] \/ (key[k] = key[i] /\ k >= i)

\* formats.rs:279-281, 321-323  the formats with both flags false
Muxed(fs) == {i \in DOMAIN fs : ~fs[i].is_audio_only /\ ~fs[i].is_video_only}

\* mutant of select_best: no preference for the formats with video and audio
select_best_AnyVideo(fs) ==
  LET video == {i \in DOMAIN fs : ~fs[i].is_audio_only}
  IN IF video = {} THEN Err("NoFormats") ELSE Ok(max_by_key(video, QualityScores(fs)))

\* formats.rs:277-299
select_best(fs) ==
  LET video == {i \in DOMAIN fs : ~fs[i].is_audio_only}
  IN IF Muxed(fs) # {} THEN Ok(max_by_key(Muxed(fs), QualityScores(fs)))
     ELSE IF video = {} THEN Err("NoFormats")
     ELSE Ok(max_by_key(video, QualityScores(fs)))

\* mutant of select_best_audio: only the audio-only formats are candidates
select_best_audio_AudioOnly(fs) ==
  LET audio == {i \in DOMAIN fs : fs[i].is_audio_only}
  IN IF audio = {} THEN Err("FormatNotFound")
     ELSE Ok(max_by_key(audio, AudioQualityScores(fs)))

\* formats.rs:301-308
select_best_audio(fs) ==
  LET audio == {i \in DOMAIN fs : fs[i].is_audio_only \/ fs[i].audio_codec}
  IN IF audio = {} THEN Err("FormatNotFound")
     ELSE Ok(max_by_key(audio, AudioQualityScores(fs)))

\* formats.rs:310-317
select_best_video(fs) ==
  LET video == {i \in DOMAIN fs : ~fs[i].is_audio_only}
  IN IF video = {} THEN Err("FormatNotFound")
     ELSE Ok(max_by_key(video, QualityScores(fs)))

\* formats.rs:319-338
select_worst(fs) ==
  IF Muxed(fs) # {} THEN Ok(min_by_key(Muxed(fs), QualityScores(fs)))
  ELSE IF DOMAIN fs = {} THEN Err("NoFormats")
  ELSE Ok(min_by_key(DOMAIN fs, QualityScores(fs)))

\* mutant of select_format: an id that matches no format selects like best
select_format_Default(fs, str, audio) ==
  IF fs = <<>> THEN Err("NoFormats")
  ELSE IF audio THEN select_best_audio(fs)
  ELSE IF to_lowercase(str) = <<"b", "e", "s", "t", "a", "u", "d", "i", "o">>
    THEN select_best_audio(fs)
  ELSE IF to_lowercase(str) = <<"b", "e", "s", "t", "v", "i", "d", "e", "o">>
    THEN select_best_video(fs)
  ELSE IF to_lowercase(str) = <<"w", "o", "r", "s", "t">> THEN select_worst(fs)
  ELSE IF \E i \in DOMAIN fs : fs[i].format_id = str
    THEN Ok(CHOOSE i \in DOMAIN fs :
              fs[i].format_id = str /\ \A k \in DOMAIN fs : fs[k].format_id = str => i <= k)
  ELSE select_best(fs)

\* mutant of select_format: the id of a format is looked up before
\* --audio-only is looked at
select_format_IdFirst(fs, str, audio) ==
  IF fs = <<>> THEN Err("NoFormats")
  ELSE IF \E i \in DOMAIN fs : fs[i].format_id = str
    THEN Ok(CHOOSE i \in DOMAIN fs :
              fs[i].format_id = str /\ \A k \in DOMAIN fs : fs[k].format_id = str => i <= k)
  ELSE IF audio THEN select_best_audio(fs)
  ELSE IF to_lowercase(str) = <<"b", "e", "s", "t">> THEN select_best(fs)
  ELSE IF to_lowercase(str) = <<"b", "e", "s", "t", "a", "u", "d", "i", "o">>
    THEN select_best_audio(fs)
  ELSE IF to_lowercase(str) = <<"b", "e", "s", "t", "v", "i", "d", "e", "o">>
    THEN select_best_video(fs)
  ELSE IF to_lowercase(str) = <<"w", "o", "r", "s", "t">> THEN select_worst(fs)
  ELSE Err("FormatNotFound")

\* formats.rs:251-275
select_format(fs, str, audio) ==
  IF fs = <<>> THEN Err("NoFormats")
  ELSE IF audio THEN select_best_audio(fs)
  ELSE IF to_lowercase(str) = <<"b", "e", "s", "t">> THEN select_best(fs)
  ELSE IF to_lowercase(str) = <<"b", "e", "s", "t", "a", "u", "d", "i", "o">>
    THEN select_best_audio(fs)
  ELSE IF to_lowercase(str) = <<"b", "e", "s", "t", "v", "i", "d", "e", "o">>
    THEN select_best_video(fs)
  ELSE IF to_lowercase(str) = <<"w", "o", "r", "s", "t">> THEN select_worst(fs)
  ELSE IF \E i \in DOMAIN fs : fs[i].format_id = str
    THEN Ok(CHOOSE i \in DOMAIN fs :
              fs[i].format_id = str /\ \A k \in DOMAIN fs : fs[k].format_id = str => i <= k)
  ELSE Err("FormatNotFound")

\* main.rs:187  the call of select_format
SelectFormat ==
  /\ selected = NotCalled
  /\ selected' = select_format(formats, format_str, audio_only)
  /\ UNCHANGED <<orch, ctl, xfer, env, formats, format_str, audio_only, input, video_id>>

\* ------------------------------------------------------------ video ids
\* extractor.rs:28  the characters of a video id: [0-9A-Za-z_-]
IdChars ==
  Digits \cup {Uppers[k] : k \in DOMAIN Uppers} \cup {Lowers[k] : k \in DOMAIN Lowers}
         \cup {"_", "-"}

Whitespace == {" ", "\n"}

\* the literals of the patterns (extractor.rs:36-38) and the pieces of the inputs
YOUTUBE_COM == <<"y", "o", "u", "t", "u", "b", "e", ".", "c", "o", "m", "/">>
YOUTU_BE == <<"y", "o", "u", "t", "u", ".", "b", "e", "/">>
EXAMPLE_COM == <<"e", "x", "a", "m", "p", "l", "e", ".", "c", "o", "m", "/">>
WATCH == <<"w", "a", "t", "c", "h", "?">>
V_EQ == <<"v", "=">>
EMBED == <<"e", "m", "b", "e", "d", "/">>
V_SLASH == <<"v", "/">>
SHORTS == <<"s", "h", "o", "r", "t", "s", "/">>
LIVE == <<"l", "i", "v", "e", "/">>
HTTPS == <<"h", "t", "t", "p", "s", ":", "/", "/">>
WWW == <<"w", "w", "w", ".">>
T_AND == <<"t", "=", "1", "&">>
T_PARAM == <<"&", "t", "=", "1">>
AN_ID == <<"d", "Q", "w", "4", "w", "9", "W", "g", "X", "c", "Q">>
SHORT_ID == <<"d", "Q", "w", "4", "w", "9", "W", "g", "X", "c">>
BAD_ID == <<"d", "Q", "w", "4", "w", "9", "!", "g", "X", "c", "Q">>
INVALID == <<"i", "n", "v", "a", "l", "i", "d">>
SUBSCRIPTIONS == <<"s", "u", "b", "s", "c", "r", "i", "p", "t", "i", "o", "n", "s">>

\* extractor.rs:25  str::trim
trim(s) ==
  LET black == {i \in DOMAIN s : s[i] \notin Whitespace}
  IN IF black = {} THEN <<>>
     ELSE SubSeq(s, CHOOSE i \in black : \A k \in black : i <= k,
                    CHOOSE i \in black : \A k \in black : i >= k)

\* the literal lit is in s at position p
StartsWith(s, p, lit) ==
  /\ p >= 1 /\ p + Len(lit) - 1 <= Len(s)
  /\ \A i \in DOMAIN lit : s[p + i - 1] = lit[i]

\* extractor.rs:28, 36, 38  ([0-9A-Za-z_-]{11}) matches in s at position p
IsId(s, p) ==
  /\ p >= 1 /\ p + ID_LEN - 1 <= Len(s)
  /\ \A i \in p..(p + ID_LEN - 1) : s[i] \in IdChars

\* what parse_video_id returns: Ok with the id, or the InvalidUrl error
Parsed(v) == [ok |-> TRUE, id |-> v, err |-> "none"]
InvalidUrl == [ok |-> FALSE, id |-> <<>>, err |-> "InvalidUrl"]
NotParsed == [ok |-> FALSE, id |-> <<>>, err |-> "not called"]

\* extractor.rs:36  (?:youtube\.com|youtu\.be)/ matches in s at p: the
\* position after it, 0 when it does not match
AfterHost(s, p) ==
  IF StartsWith(s, p, YOUTUBE_COM) THEN p + Len(YOUTUBE_COM)
  ELSE IF StartsWith(s, p, YOUTU_BE) THEN p + Len(YOUTU_BE)
  ELSE 0

\* extractor.rs:36  watch\?.*?v= followed by the id, from position q: the
\* lazy .*? takes the fewest characters, none of them a line feed, after
\* which v= and an id follow; the position of that id, 0 when there is none
AfterWatch(s, q) ==
  LET stops == {c \in (q + Len(WATCH))..Len(s) :
                  /\ StartsWith(s, q, WATCH)
                  /\ StartsWith(s, c, V_EQ)
                  /\ IsId(s, c + Len(V_EQ))
                  /\ \A i \in (q + Len(WATCH))..(c - 1) : s[i] # "\n"}
  IN IF stops = {} THEN 0
     ELSE (CHOOSE c \in stops : \A k \in stops : c <= k) + Len(V_EQ)

\* a literal prefix followed by the id, from position q
AfterLiteral(s, q, lit) ==
  IF StartsWith(s, q, lit) /\ IsId(s, q + Len(lit)) THEN q + Len(lit) ELSE 0

\* extractor.rs:36  the match of the first pattern that starts at p: the
\* position of the captured id, 0 when there is no match at p; the
\* alternatives of the optional group are tried in their order, the empty
\* one last
Capture1At(s, p) ==
  LET q == AfterHost(s, p)
  IN IF q = 0 THEN 0
     ELSE IF AfterWatch(s, q) # 0 THEN AfterWatch(s, q)
     ELSE IF AfterLiteral(s, q, EMBED) # 0 THEN AfterLiteral(s, q, EMBED)
     ELSE IF AfterLiteral(s, q, V_SLASH) # 0 THEN AfterLiteral(s, q, V_SLASH)
     ELSE IF AfterLiteral(s, q, SHORTS) # 0 THEN AfterLiteral(s, q, SHORTS)
     ELSE IF AfterLiteral(s, q, LIVE) # 0 THEN AfterLiteral(s, q, LIVE)
     ELSE IF IsId(s, q) THEN q
     ELSE 0

\* extractor.rs:38  the match of the second pattern that starts at p
Capture2At(s, p) == AfterLiteral(s, p, YOUTU_BE)

\* extractor.rs:34-39  the match at p of the first or of the second pattern
CaptureAt(s, p, pattern) == IF pattern = 1 THEN Capture1At(s, p) ELSE Capture2At(s, p)

\* extractor.rs:43-46  Regex::captures: the leftmost match; the position of
\* the id it captures, 0 when the pattern matches nowhere in s
captures(s, pattern) ==
  LET starts == {p \in DOMAIN s : CaptureAt(s, p, pattern) # 0}
  IN IF starts = {} THEN 0
     ELSE CaptureAt(s, CHOOSE p \in starts : \A k \in starts : p <= k, pattern)

\* mutant of parse_video_id: an id is accepted only inside a URL
parse_video_id_UrlOnly(raw) ==
  LET s == trim(raw)
  IN IF captures(s, 1) # 0
       THEN Parsed(SubSeq(s, captures(s, 1), captures(s, 1) + ID_LEN - 1))
     ELSE IF captures(s, 2) # 0
       THEN Parsed(SubSeq(s, captures(s, 2), captures(s, 2) + ID_LEN - 1))
     ELSE InvalidUrl

\* extractor.rs:24-51
parse_video_id(raw) ==
  LET s == trim(raw)
  IN IF Len(s) = ID_LEN /\ IsId(s, 1) THEN Parsed(s)
     ELSE IF captures(s, 1) # 0
       THEN Parsed(SubSeq(s, captures(s, 1), captures(s, 1) + ID_LEN - 1))
     ELSE IF captures(s, 2) # 0
       THEN Parsed(SubSeq(s, captures(s, 2), captures(s, 2) + ID_LEN - 1))
     ELSE InvalidUrl

\* the inputs: a scheme, a host, a path and a tail, each of them possibly
\* empty, with or without white space around them
Schemes == {<<>>, HTTPS, HTTPS \o WWW}
Hosts == {<<>>, YOUTUBE_COM, YOUTU_BE, EXAMPLE_COM}
Paths == {<<>>, WATCH \o V_EQ, WATCH \o T_AND \o V_EQ, WATCH, EMBED, SHORTS}
Tails == {AN_ID, AN_ID \o T_PARAM, SHORT_ID, AN_ID \o SHORT_ID, BAD_ID, INVALID, SUBSCRIPTIONS}
Pads == {<<>>, <<" ">>, <<"\n">>}

Inputs ==
  {l \o s \o h \o p \o t \o r :
     l \in Pads, s \in Schemes, h \in Hosts, p \in Paths, t \in Tails, r \in Pads}

\* main.rs:178  the call of parse_video_id
ParseVideoId ==
  /\ video_id = NotParsed
  /\ video_id' = parse_video_id(input)
  /\ UNCHANGED <<orch, ctl, xfer, env, formats, format_str, audio_only, selected, input>>

\* ---------------------------------------------------------- specifications
InitJob ==
  /\ main = "running" /\ runs = 1
  /\ jobs = Absent /\ semaphore = 0 /\ stream_pos = 0
  /\ completed = 0 /\ failed = 0
  /\ pc = [j \in Jobs |-> "pending"]
  /\ err = [j \in Jobs |-> "none"]
  /\ total_size = [j \in Jobs |-> Absent]
  /\ downloaded = [j \in Jobs |-> 0]
  /\ ranges = [j \in Jobs |-> {}]
  /\ first_range = [j \in Jobs |-> <<>>]
  /\ resume_from = [j \in Jobs |-> Absent]
  /\ last_io = [j \in Jobs |-> "ok"]
  /\ handle = [j \in Jobs |-> "none"]
  /\ status = [j \in Jobs |-> Absent]
  /\ dest = [p \in Jobs |-> Absent]

\* the runs of a download take the outcome of the selection from
\* ExtractReturn and that of parse_video_id from Begin: the two functions are
\* not called on a catalog or an input of their own
InitCall ==
  /\ formats = <<>> /\ format_str = <<"b", "e", "s", "t">> /\ audio_only = FALSE
  /\ selected = NotCalled
  /\ input = <<>> /\ video_id = NotParsed

\* a batch run (--batch-file), without --output, of videos whose titles
\* differ, in an output directory without .part files
Init ==
  /\ InitJob
  /\ InitCall
  /\ batch_file = TRUE
  /\ args_jobs \in RequestedJobs
  /\ list_formats \in BOOLEAN
  /\ urls_len \in 0..NumJobs
  /\ remote \in [Jobs -> BatchSizes]
  /\ part = [p \in Jobs |-> Absent]
  /\ output = [j \in Jobs |-> j]

Next ==
  \/ StartBatch
  \/ \E j \in Jobs : Pull(j)
  \/ \E j \in Jobs : Acquire(j)
  \/ \E j \in Jobs : JobStep(j)
  \/ Collect

Spec == Init /\ [][Next]_vars

\* a single-URL run, and re-runs of it, with any .part file left by an earlier run
InitTransfer ==
  /\ InitJob
  /\ InitCall
  /\ batch_file = FALSE
  /\ args_jobs = 3
  /\ list_formats = FALSE
  /\ urls_len = 1
  /\ \E t \in Sizes : remote = [j \in Jobs |-> t]
  /\ \E L \in Sizes \cup {Absent} : part = [p \in Jobs |-> IF p = 1 THEN L ELSE Absent]
  /\ output = [j \in Jobs |-> j]

NextTransfer ==
  \/ RunSingle
  \/ JobStep(1)
  \/ Reinvoke

TransferSpec == InitTransfer /\ [][NextTransfer]_vars
\* the scheduling of a single-URL run: the executor keeps polling the one
\* future, so the run does not stop while a step of it can be taken; a re-run
\* is up to the user
FairTransferSpec ==
  /\ InitTransfer /\ [][NextTransfer]_vars
  /\ WF_vars(RunSingle \/ JobStep(1))

\* the scheduling of a batch: the executor keeps polling the stream, so the
\* batch does not stop while a step can be taken: every awaited operation
\* returns, and a request that is answered again and again is at some time
\* answered with something other than an empty body
FairInit ==
  /\ InitJob
  /\ InitCall
  /\ batch_file = TRUE
  /\ args_jobs \in RequestedJobs
  /\ list_formats \in BOOLEAN
  /\ urls_len \in 1..FairJobs
  /\ remote \in [Jobs -> BatchSizes]
  /\ part = [p \in Jobs |-> Absent]
  /\ output = [j \in Jobs |-> j]

FairSpec == FairInit /\ [][Next]_vars /\ WF_vars(Next)

\* a batch of one URL, run with every value of --jobs from 0 to MaxRequested
ClampInit ==
  /\ InitJob
  /\ InitCall
  /\ batch_file = TRUE
  /\ args_jobs \in 0..MaxRequested
  /\ list_formats = FALSE
  /\ urls_len = 1
  /\ remote \in [Jobs -> BatchSizes]
  /\ part = [p \in Jobs |-> Absent]
  /\ output = [j \in Jobs |-> j]

ClampSpec == ClampInit /\ [][Next]_vars

\* a batch run with --jobs 10 in which the jobs get their output paths either
\* from --output, which gives every job the same path (main.rs:189-190), or
\* from titles that differ
SharedInit ==
  /\ InitJob
  /\ InitCall
  /\ batch_file = TRUE
  /\ args_jobs = MAX_JOBS
  /\ list_formats = FALSE
  /\ urls_len = SharedJobs
  /\ remote \in [Jobs -> BatchSizes]
  /\ part = [p \in Jobs |-> Absent]
  /\ output \in {[j \in Jobs |-> 1], [j \in Jobs |-> j]}

SharedSpec == SharedInit /\ [][Next]_vars

\* the scheduling of a batch whose remote may leave a request unanswered: the
\* executor keeps polling the stream, so a step of run_batch itself is taken
\* when one can be; a job resumes only when the request it awaits returns,
\* and the client is built without a timeout that would make it return
\* (downloader.rs:22-25)
StallSpec ==
  /\ FairInit /\ [][Next]_vars
  /\ WF_vars(StartBatch \/ (\E j \in Jobs : Pull(j)) \/ (\E j \in Jobs : Acquire(j)) \/ Collect)

\* no download is under way
Idle ==
  /\ InitJob
  /\ batch_file = FALSE /\ args_jobs = 3 /\ list_formats = FALSE /\ urls_len = 1
  /\ remote = [j \in Jobs |-> 0]
  /\ part = [p \in Jobs |-> Absent]
  /\ output = [j \in Jobs |-> j]

\* select_format called on every catalog, with every value of --format and
\* of --audio-only
SelectInit ==
  /\ Idle
  /\ formats \in Catalogs
  /\ format_str \in FormatArgs
  /\ audio_only \in BOOLEAN
  /\ selected = NotCalled
  /\ input = <<>> /\ video_id = NotParsed

NextSelect == SelectFormat

SelectSpec == SelectInit /\ [][NextSelect]_vars

\* parse_video_id called on every input
ParseInit ==
  /\ Idle
  /\ formats = <<>> /\ format_str = <<"b", "e", "s", "t">> /\ audio_only = FALSE
  /\ selected = NotCalled
  /\ input \in Inputs
  /\ video_id = NotParsed

NextParse == ParseVideoId

ParseSpec == ParseInit /\ [][NextParse]_vars

\* ------------------------------------------------------------------ claims
Transferring == {j \in Jobs : pc[j] = "chunk"}
Working == {j \in Jobs : pc[j] \in {"extract", "head", "probe_range", "probe_get", "chunk"}}
Submitted == 1..urls_len
BatchDone == batch_file /\ jobs # Absent /\ main \in {"Ok", "Err"}

\* C1: in a batch, at most K jobs are in the chunk loop at once, K being the
\* requested limit clamped to [1, 10]
C1_TransferringBounded ==
  batch_file => Cardinality(Transferring) <= Max(1, Min(10, args_jobs))

C1_Witness ==
  /\ jobs = 2 /\ Cardinality(Transferring) = 2
  /\ \E j \in Submitted : pc[j] = "pending"

\* C2 (as claimed): run_batch returns Err only when failed > 0 and
\* completed = 0, and Ok for every other pair of counters
C2_Original ==
  (batch_file /\ main \in {"Ok", "Err"}) =>
    (main = "Err" <=> (failed > 0 /\ completed = 0))

\* C2 (amended): once run_batch has dispatched its jobs it returns Err exactly
\* when failed > 0 and completed = 0, and Ok otherwise; when it returns before
\* dispatching (batch file unreadable or without URLs, output directory not
\* creatable) it returns Err with both counters 0; the exit code is non-zero
\* exactly when it returns Err
C2_Amended ==
  (batch_file /\ main \in {"Ok", "Err"}) =>
    /\ jobs # Absent => (main = "Err" <=> (failed > 0 /\ completed = 0))
    /\ jobs = Absent => (main = "Err" /\ failed = 0 /\ completed = 0)
    /\ (ExitCode # 0) <=> (main = "Err")

C2_Witness ==
  BatchDone /\ main = "Ok" /\ ExitCode = 0 /\ failed = 2 /\ completed = 1

C4_Claim ==
  \A j \in Jobs :
    (resume_from[j] # Absent /\ total_size[j] # Absent /\ resume_from[j] < total_size[j]) =>
      /\ first_range[j] # <<>> =>
           first_range[j] = <<resume_from[j],
                              Min(resume_from[j] + 1048576 - 1, total_size[j] - 1)>>
      /\ pc[j] = "Completed" => dest[PathOf(j)] = total_size[j]

\* C5: with a .part file of length >= T, download requests no range and
\* ends at once: with the .part file renamed to the destination, or with the
\* I/O error of reading its length or of the rename
C5_ShortCircuit ==
  \A j \in Jobs :
    (resume_from[j] # Absent /\ total_size[j] # Absent /\ resume_from[j] >= total_size[j]) =>
      /\ ranges[j] = {} /\ first_range[j] = <<>>
      /\ pc[j] \in Terminal
      /\ pc[j] = "Completed" =>
           part[PathOf(j)] = Absent /\ dest[PathOf(j)] = resume_from[j]
      /\ pc[j] = "Failed" =>
           /\ last_io[j] \in {"metadata", "rename"}
           /\ part[PathOf(j)] = resume_from[j]

C5_Witness ==
  /\ resume_from[1] > total_size[1] /\ total_size[1] > 0
  /\ pc[1] = "Completed" /\ dest[1] = resume_from[1] /\ ranges[1] = {}

TransferOps ==
  {"head", "probe_range", "probe_get", "chunk", "metadata", "open", "create", "write", "rename"}

\* C6 (as claimed): whenever a network or I/O operation of a transfer has
\* failed, the transfer has returned the error
C6_Original ==
  \A j \in Jobs : last_io[j] \in TransferOps => pc[j] = "Failed"

\* C6 (amended): a failed HEAD request of size discovery does not end the
\* transfer (discovery goes on with the GET for bytes=0-0); every other
\* network or I/O error ends it in the step it occurs in, with no further
\* request, and after the return no request is made; a .part file is never
\* deleted by a failing transfer and never loses bytes
C6_Amended ==
  /\ [][\A j \in Jobs :
          (pc[j] \notin Terminal /\ last_io'[j] \in TransferOps \ {"head"}) =>
            /\ pc'[j] = "Failed" /\ err'[j] \in {"Http", "Io"}
            /\ ranges'[j] = ranges[j]
            /\ part'[PathOf(j)] >= part[PathOf(j)]]_vars
  /\ [][\A j \in Jobs :
          (pc[j] = "Failed" /\ runs' = runs) =>
            /\ pc'[j] = "Failed" /\ ranges'[j] = ranges[j]
            /\ part'[PathOf(j)] = part[PathOf(j)]]_vars
  /\ [][\A j \in Jobs :
          pc'[j] = "Failed" => part'[PathOf(j)] >= part[PathOf(j)]]_vars

C6_Witness ==
  /\ pc[1] = "Failed" /\ last_io[1] = "chunk" /\ err[1] = "Http"
  /\ part[1] > 0 /\ part[1] = downloaded[1] /\ Cardinality(ranges[1]) = 2

\* C7 (as claimed): a re-run that finds the .part file of a failed run, of
\* length L < T, requests no byte below L, starts at L, and on completion
\* the file holds exactly T bytes
C7_Claim ==
  (runs > 1 /\ resume_from[1] # Absent /\ total_size[1] # Absent
            /\ resume_from[1] < total_size[1]) =>
    /\ \A r \in ranges[1] : r[1] >= resume_from[1]
    /\ first_range[1] # <<>> => first_range[1][1] = resume_from[1]
    /\ pc[1] = "Completed" => dest[1] = total_size[1]

\* C8 (as claimed): when run_batch is done, completed counts the jobs whose
\* transfer completed, failed the jobs that ended with an error, no job is
\* counted in completed without a completed transfer, and the two add up to
\* the number of URLs
C8_Original ==
  BatchDone =>
    /\ completed = Cardinality({j \in Jobs : pc[j] = "Completed" /\ dest[PathOf(j)] # Absent})
    /\ failed = Cardinality({j \in Jobs : pc[j] = "Failed"})
    /\ \A j \in Jobs : pc[j] = "Completed" => total_size[j] # Absent /\ dest[PathOf(j)] # Absent
    /\ completed + failed = urls_len

\* C8 (amended): when run_batch is done after dispatching its jobs, completed
\* counts the jobs whose download_single returned Ok, failed those for which
\* it returned an error, and the two add up to the number of URLs; a job that
\* returned Ok has completed a transfer unless --list-formats is set, in which
\* case it has listed the formats and transferred nothing
C8_Amended ==
  BatchDone =>
    /\ completed = Cardinality({j \in Jobs : pc[j] = "Completed"})
    /\ failed = Cardinality({j \in Jobs : pc[j] = "Failed"})
    /\ completed + failed = urls_len
    /\ \A j \in Jobs :
         /\ pc[j] = "Failed" <=> err[j] # "none"
         /\ j \in Submitted <=> pc[j] \in Terminal
         /\ pc[j] = "Completed" =>
              IF list_formats
                THEN total_size[j] = Absent /\ dest[PathOf(j)] = Absent
                ELSE total_size[j] # Absent /\ dest[PathOf(j)] # Absent

C8_Witness ==
  /\ BatchDone /\ ~list_formats /\ urls_len = NumJobs
  /\ completed = NumJobs - 1 /\ failed = 1
  /\ \E j \in Jobs : pc[j] = "Failed" /\ err[j] = "FormatNotFound"

\* C9: a job holds a permit from before its first piece of work until it has
\* ended: the permits available plus the jobs at work are the K permits, at
\* most K jobs are at work, and when run_batch returns all K permits are free
C9_Permits ==
  (batch_file /\ jobs # Absent) =>
    /\ semaphore \in 0..jobs
    /\ semaphore + Cardinality(Working) = jobs
    /\ Cardinality(Working) <= jobs
    /\ main \in {"Ok", "Err"} => semaphore = jobs /\ Working = {}

C9_Witness ==
  /\ BatchDone /\ jobs = 2 /\ urls_len = NumJobs /\ semaphore = 2
  /\ failed > 0 /\ completed > 0

\* C10: the limit run_batch uses is the requested one clamped to [1, 10], and
\* the semaphore is created with that many permits
C10_Clamped ==
  (batch_file /\ jobs # Absent) =>
    /\ jobs = (IF args_jobs < 1 THEN 1 ELSE IF args_jobs > 10 THEN 10 ELSE args_jobs)
    /\ jobs \in 1..10
    /\ stream_pos = 0 => semaphore = jobs

C10_Witness ==
  /\ args_jobs = 11 /\ jobs = 10 /\ semaphore = 10 /\ stream_pos = 0 /\ main = "running"

Discovery == {"head", "probe_range", "probe_get"}

\* C11 (as claimed): size discovery sends the HEAD request, then the GET for
\* bytes=0-0, then the plain GET, in this order; once a step has yielded the
\* size no further discovery request is sent; and discovery ends in a
\* transfer error only from the third step, after all three have been tried
C11_Claim ==
  /\ [][\A j \in Jobs :
          (pc'[j] \in Discovery /\ pc'[j] # pc[j]) =>
            \/ pc[j] = "extract" /\ pc'[j] = "head"
            \/ pc[j] = "head" /\ pc'[j] = "probe_range"
            \/ pc[j] = "probe_range" /\ pc'[j] = "probe_get"]_vars
  /\ [][\A j \in Jobs :
          (total_size[j] # Absent /\ runs' = runs) => pc'[j] \notin Discovery]_vars
  /\ [][\A j \in Jobs :
          (pc[j] \in Discovery /\ pc'[j] = "Failed" /\ total_size'[j] = Absent) =>
            pc[j] = "probe_get"]_vars

\* C12 (as claimed): in every state, a job with bytesDownloaded = bytesTotal
\* has its destination file and no .part file, and a .part file on disk
\* belongs to a job that is not complete and has bytesDownloaded < bytesTotal
C12_Original ==
  \A j \in Jobs :
    total_size[j] # Absent =>
      /\ downloaded[j] = total_size[j] =>
           part[PathOf(j)] = Absent /\ dest[PathOf(j)] # Absent
      /\ part[PathOf(j)] # Absent =>
           pc[j] # "Completed" /\ downloaded[j] < total_size[j]

\* C12 (amended): a transfer in its chunk loop has bytesDownloaded <
\* bytesTotal; once bytesDownloaded >= bytesTotal the transfer has ended, with
\* Ok or with the I/O error of the rename (or of reading or creating the
\* .part file); in the step in which it returns Ok it has renamed the .part
\* file to the destination (the .part file is gone, the destination
\* exists); when the rename fails it returns the error with
\* bytesDownloaded >= bytesTotal
C12_Amended ==
  /\ [](\A j \in Jobs :
          total_size[j] # Absent =>
            /\ pc[j] = "chunk" => downloaded[j] < total_size[j]
            /\ downloaded[j] >= total_size[j] => pc[j] \in Terminal
            /\ pc[j] = "Completed" => downloaded[j] >= total_size[j]
            /\ (pc[j] = "Failed" /\ downloaded[j] >= total_size[j]) =>
                 last_io[j] \in {"rename", "metadata", "create"}
            /\ (pc[j] = "Failed" /\ last_io[j] = "rename") =>
                 downloaded[j] >= total_size[j])
  /\ [][\A j \in Jobs :
          (pc[j] # "Completed" /\ pc'[j] = "Completed" /\ total_size'[j] # Absent) =>
            /\ part[PathOf(j)] # Absent \/ resume_from'[j] = Absent
            /\ part'[PathOf(j)] = Absent
            /\ dest'[PathOf(j)] # Absent
            /\ downloaded'[j] >= total_size'[j]]_vars

C12_Witness ==
  /\ pc[1] = "Completed" /\ total_size[1] = 2 * CHUNK_SIZE
  /\ downloaded[1] = total_size[1] /\ Cardinality(ranges[1]) = 2
  /\ part[1] = Absent /\ dest[1] = total_size[1]

InTransfer == {j \in Jobs : pc[j] \in Discovery \cup {"chunk"}}

\* C13 (as claimed): in a batch, no two jobs that are in their transfer at
\* the same time have the same output path, and no .part file is open for
\* writing in more than one job
C13_Claim ==
  batch_file =>
    /\ \A i \in InTransfer : \A j \in InTransfer : i # j => PathOf(i) # PathOf(j)
    /\ \A p \in Jobs : Cardinality({j \in Jobs : PathOf(j) = p /\ handle[j] = "part"}) <= 1

\* C14 (as claimed): whatever the remote does, a job that has taken a permit
\* comes to its end and gives the permit back, and a job that waits for a
\* permit gets one
C14_Claim ==
  \A j \in Jobs :
    /\ (j \in Working) ~> (pc[j] \in Terminal)
    /\ (pc[j] = "queued") ~> (j \in Working \/ pc[j] \in Terminal)

BEST == <<"b", "e", "s", "t">>
BESTAUDIO == <<"b", "e", "s", "t", "a", "u", "d", "i", "o">>
BESTVIDEO == <<"b", "e", "s", "t", "v", "i", "d", "e", "o">>
WORST == <<"w", "o", "r", "s", "t">>
Keywords == {BEST, BESTAUDIO, BESTVIDEO, WORST}

\* select_format has been called with the policy token tok, --audio-only unset
Selected(tok) == selected # NotCalled /\ ~audio_only /\ format_str = tok

\* the positions of the catalog whose format is muxed, not audio-only, audio-capable
MuxedAt == {i \in DOMAIN formats : ~formats[i].is_audio_only /\ ~formats[i].is_video_only}
VideoAt == {i \in DOMAIN formats : ~formats[i].is_audio_only}
AudioAt == {i \in DOMAIN formats : formats[i].is_audio_only \/ formats[i].audio_codec}

\* C15: on a catalog that is not empty, best returns a muxed format of
\* maximal quality score when there is a muxed one, else a format that is not
\* audio-only of maximal quality score when there is one, else NoFormats
C15_Best ==
  (Selected(BEST) /\ formats # <<>>) =>
    IF MuxedAt # {}
      THEN /\ selected.ok /\ selected.index \in MuxedAt
           /\ \A k \in MuxedAt :
                quality_score(formats[k]) <= quality_score(formats[selected.index])
    ELSE IF VideoAt # {}
      THEN /\ selected.ok /\ selected.index \in VideoAt
           /\ \A k \in VideoAt :
                quality_score(formats[k]) <= quality_score(formats[selected.index])
    ELSE ~selected.ok /\ selected.err = "NoFormats"

C15_Witness ==
  /\ Selected(BEST) /\ Len(formats) = 3
  /\ MuxedAt = {} /\ Cardinality(VideoAt) = 2
  /\ selected.ok /\ formats[selected.index].is_video_only

IdAt == {i \in DOMAIN formats : formats[i].format_id = format_str}
NotFound == ~selected.ok /\ selected.err = "FormatNotFound"

\* C16: on an empty catalog every policy token gives NoFormats; a token that
\* is not one of the keywords best, bestaudio, bestvideo, worst (which are
\* recognised in any letter case) and is the id of no format of the catalog
\* gives FormatNotFound; bestaudio and bestvideo give FormatNotFound on a
\* catalog that is not empty and has no candidate of their category
C16_Errors ==
  selected # NotCalled =>
    /\ formats = <<>> => ~selected.ok /\ selected.err = "NoFormats"
    /\ (~audio_only /\ formats # <<>>) =>
         /\ (to_lowercase(format_str) \notin Keywords /\ IdAt = {}) => NotFound
         /\ (format_str = BESTAUDIO /\ AudioAt = {}) => NotFound
         /\ (format_str = BESTVIDEO /\ VideoAt = {}) => NotFound

C16_Witness ==
  /\ ~audio_only /\ Len(formats) = 3 /\ format_str = <<"4", "2">>
  /\ IdAt = {} /\ NotFound

\* C17: bestaudio returns, of the formats that are audio-only or have an
\* audio codec, one of maximal audio quality score; bestvideo returns, of the
\* formats that are not audio-only, one of maximal quality score
C17_BestAudioVideo ==
  /\ (Selected(BESTAUDIO) /\ AudioAt # {}) =>
       /\ selected.ok /\ selected.index \in AudioAt
       /\ \A k \in AudioAt :
            audio_quality_score(formats[k]) <= audio_quality_score(formats[selected.index])
  /\ (Selected(BESTVIDEO) /\ VideoAt # {}) =>
       /\ selected.ok /\ selected.index \in VideoAt
       /\ \A k \in VideoAt :
            quality_score(formats[k]) <= quality_score(formats[selected.index])

C17_Witness ==
  /\ Selected(BESTAUDIO) /\ Len(formats) = 3 /\ selected.ok
  /\ ~formats[selected.index].is_audio_only
  /\ \E k \in AudioAt : formats[k].is_audio_only
  /\ \E k \in DOMAIN formats : k \notin AudioAt

\* C18 (as claimed): worst takes its candidates as best does, the muxed
\* formats when there are any and the formats that are not audio-only
\* otherwise, returns a candidate of minimal quality score, and fails on the
\* catalogs on which best fails and on no other
C18_Claim ==
  (Selected(WORST) /\ formats # <<>>) =>
    LET candidates == IF MuxedAt # {} THEN MuxedAt ELSE VideoAt
    IN /\ selected.ok <=> select_format(formats, BEST, FALSE).ok
       /\ selected.ok =>
            /\ selected.index \in candidates
            /\ \A k \in candidates :
                 quality_score(formats[k]) >= quality_score(formats[selected.index])
       /\ ~selected.ok => selected.err = select_format(formats, BEST, FALSE).err

\* the positions that tie with position i: same flags, same quality score
\* (same audio quality score under bestaudio)
TiesOf(i, key) ==
  {k \in DOMAIN formats :
     /\ key[k] = key[i]
     /\ formats[k].is_audio_only = formats[i].is_audio_only
     /\ formats[k].is_video_only = formats[i].is_video_only}

FirstWins(r, key) == r.ok => \A k \in TiesOf(r.index, key) : r.index <= k
LastWins(r, key) == r.ok => \A k \in TiesOf(r.index, key) : r.index >= k

\* C19 (as claimed): on the catalog select_format was called on, the four
\* policies resolve ties on the score by the same positional rule: all of
\* them return the first of the formats that tie, or all of them the last
C19_Claim ==
  (selected # NotCalled /\ ~audio_only) =>
    LET best == select_format(formats, BEST, FALSE)
        audio == select_format(formats, BESTAUDIO, FALSE)
        video == select_format(formats, BESTVIDEO, FALSE)
        worst == select_format(formats, WORST, FALSE)
        q == QualityScores(formats)
        a == AudioQualityScores(formats)
    IN /\ selected = select_format(formats, format_str, FALSE)
       /\ \/ /\ FirstWins(best, q) /\ FirstWins(video, q)
             /\ FirstWins(audio, a) /\ FirstWins(worst, q)
          \/ /\ LastWins(best, q) /\ LastWins(video, q)
             /\ LastWins(audio, a) /\ LastWins(worst, q)

\* s is eleven characters, all of them of [0-9A-Za-z_-]
RawId(s) == Len(s) = 11 /\ \A i \in DOMAIN s : s[i] \in IdChars

\* s holds the literal lit somewhere
Contains(s, lit) == \E p \in DOMAIN s : StartsWith(s, p, lit)

\* s holds eleven characters of [0-9A-Za-z_-] in a row somewhere
HasIdRun(s) == \E p \in DOMAIN s : IsId(s, p)

\* C20: parse_video_id returns a raw id as it is, returns the id of a watch
\* URL https://www.youtube.com/watch?v=<id> and of a short URL
\* https://youtu.be/<id>, and returns InvalidUrl for an input that, white
\* space around it apart, is no raw id and has no YouTube host in it or no
\* eleven id characters in a row
C20_ParseVideoId ==
  video_id # NotParsed =>
    /\ RawId(input) => video_id = Parsed(input)
    /\ \A url \in {HTTPS \o WWW \o YOUTUBE_COM \o WATCH \o V_EQ, HTTPS \o YOUTU_BE} :
         (/\ Len(input) = Len(url) + 11
          /\ StartsWith(input, 1, url)
          /\ RawId(SubSeq(input, Len(url) + 1, Len(input)))) =>
           video_id = Parsed(SubSeq(input, Len(url) + 1, Len(input)))
    /\ (/\ ~RawId(trim(input))
        /\ \/ ~Contains(input, YOUTUBE_COM) /\ ~Contains(input, YOUTU_BE)
           \/ ~HasIdRun(input)) =>
         video_id = InvalidUrl

C20_Witness ==
  /\ input = HTTPS \o WWW \o YOUTUBE_COM \o WATCH \o V_EQ \o AN_ID
  /\ video_id = Parsed(AN_ID)

Ended == {j \in Jobs : pc[j] \in Terminal}

\* C21: in every state of a batch run, whatever the interleaving of the jobs,
\* succeeded + failed is the number of jobs that have reached Completed or
\* Failed, succeeded counting the ones and failed the others; the step in
\* which a job ends adds one to exactly one of the two counters and no other
\* step changes them, so no increment is lost
C21_Counters ==
  /\ [](batch_file =>
          /\ completed + failed = Cardinality(Ended)
          /\ completed = Cardinality({j \in Jobs : pc[j] = "Completed"})
          /\ failed = Cardinality({j \in Jobs : pc[j] = "Failed"}))
  /\ [][batch_file =>
          /\ completed' >= completed /\ failed' >= failed
          /\ completed' + failed' <= completed + failed + 1
          /\ \A j \in Jobs :
               (pc[j] \notin Terminal /\ pc'[j] \in Terminal) =>
                 completed' + failed' = completed + failed + 1
          /\ completed' + failed' # completed + failed =>
               \E j \in Jobs : pc[j] \notin Terminal /\ pc'[j] \in Terminal]_vars

C21_Witness ==
  /\ batch_file /\ main = "running" /\ jobs = 2 /\ urls_len = NumJobs
  /\ completed = 1 /\ failed = 1 /\ Cardinality(Ended) = 2
  /\ pc[1] = "chunk" /\ pc[2] = "Failed" /\ pc[3] = "Completed"

Unadmitted(j) == pc[j] \in {"pending", "queued"}

\* C22: admission is in submission order: a job takes its permit only when
\* every job submitted before it has taken one, so the jobs that have taken a
\* permit are the first ones of the batch; the order of completion is free (a
\* job may end before one submitted earlier: the witness)
C22_Fifo ==
  /\ [](batch_file => \A j \in Jobs : ~Unadmitted(j) => \A i \in 1..(j - 1) : ~Unadmitted(i))
  /\ [][batch_file =>
          \A j \in Jobs :
            (Unadmitted(j) /\ pc'[j] \notin {"pending", "queued"}) =>
              /\ semaphore > 0
              /\ \A i \in 1..(j - 1) : ~Unadmitted(i)]_vars

C22_Witness ==
  /\ batch_file /\ jobs = 2 /\ urls_len = NumJobs
  /\ pc[1] = "chunk" /\ pc[2] = "Completed" /\ pc[3] = "head"

\* the phase of a job that is suspended at p: it is Pending until download
\* sends its first request (main.rs:173-207, downloader.rs:18-25), Probing in
\* get_content_length (downloader.rs:27), Transferring in the chunk loop
\* (downloader.rs:73-100)
PhaseOf(p) ==
  IF p \in {"pending", "queued", "extract"} THEN "Pending"
  ELSE IF p \in Discovery THEN "Probing"
  ELSE IF p = "chunk" THEN "Transferring"
  ELSE p

\* the phases job j is in during one step, from the one it is suspended in to
\* the one it is suspended or has ended in: after size discovery it is in
\* Resuming (downloader.rs:34-54) when the step found a .part file, else in
\* Starting (downloader.rs:56); it is in Finalizing at a rename of the .part
\* file (downloader.rs:39, 102-105), which the short-circuit of the resume
\* protocol reaches without the chunk loop
PhasesOf(j) ==
  LET from == PhaseOf(pc[j])
      to == PhaseOf(pc'[j])
      choice == IF resume_from'[j] # Absent THEN "Resuming" ELSE "Starting"
      renamed == pc'[j] = "Completed" \/ last_io'[j] = "rename"
  IN IF from = "Probing" /\ total_size'[j] # Absent
       THEN IF to = "Transferring" THEN <<from, choice, to>>
            ELSE IF ~renamed THEN <<from, choice, to>>
            ELSE IF choice = "Resuming" THEN <<from, choice, "Finalizing", to>>
            ELSE <<from, choice, "Transferring", "Finalizing", to>>
     ELSE IF from = "Transferring" /\ renamed THEN <<from, "Finalizing", to>>
     ELSE <<from, to>>

\* the transitions of the state machine as claimed
ClaimedEdges ==
  { <<"Pending", "Probing">>, <<"Probing", "Resuming">>, <<"Probing", "Starting">>,
    <<"Resuming", "Transferring">>, <<"Starting", "Transferring">>,
    <<"Transferring", "Finalizing">>, <<"Finalizing", "Completed">>,
    <<"Probing", "Failed">>, <<"Transferring", "Failed">>, <<"Finalizing", "Failed">> }

\* the transitions the code has besides
OtherEdges ==
  { <<"Resuming", "Finalizing">>, <<"Pending", "Failed">>, <<"Pending", "Completed">>,
    <<"Resuming", "Failed">>, <<"Starting", "Failed">> }

\* every phase job j passes in the step follows its predecessor by an edge of E
Follows(j, E) ==
  \A k \in 1..(Len(PhasesOf(j)) - 1) :
    PhasesOf(j)[k] = PhasesOf(j)[k + 1] \/ <<PhasesOf(j)[k], PhasesOf(j)[k + 1]>> \in E

\* the job that has discovered the size in this step has chosen Resuming
\* exactly when there was a .part file at its path; in Resuming it has not
\* created a file and goes on from the length of the .part file, in Starting
\* it has read or opened no file and goes on from 0
ChoiceOf(j) ==
  (PhaseOf(pc[j]) = "Probing" /\ total_size'[j] # Absent) =>
    /\ resume_from'[j] # Absent <=> part[PathOf(j)] # Absent
    /\ IF part[PathOf(j)] # Absent
         THEN /\ last_io'[j] # "create"
              /\ last_io'[j] = "metadata" \/ downloaded'[j] = part[PathOf(j)]
         ELSE /\ last_io'[j] \notin {"metadata", "open"}
              /\ downloaded'[j] = 0

\* C23 (as claimed): the phase of a job changes only along Pending ->
\* Probing -> (Resuming | Starting) -> Transferring -> Finalizing -> Completed,
\* no state skipped; Failed is entered only from Probing, Transferring or
\* Finalizing; Completed and Failed are terminal; Resuming is chosen exactly
\* when there is a .part file at the moment of the choice
C23_Original ==
  [][runs' = runs =>
       \A j \in Jobs :
         /\ Follows(j, ClaimedEdges)
         /\ pc[j] \in Terminal => pc'[j] = pc[j]
         /\ ChoiceOf(j)]_vars

\* C23 (amended): the phase of a job changes only along Pending -> Probing
\* -> (Resuming | Starting) -> Transferring -> Finalizing -> Completed, with
\* these exceptions: Resuming goes to Finalizing without Transferring exactly
\* when the .part file is at least as long as the total (it is then renamed
\* without being opened); Failed is entered from Pending (invalid URL,
\* catalog, selection or client error), from Probing, from Resuming or
\* Starting (the .part file cannot be read, opened or created), from
\* Transferring and from Finalizing; with --list-formats a job goes from
\* Pending to Completed.  Completed and Failed are terminal, and Resuming is
\* chosen exactly when there is a .part file at the moment of the choice
C23_Amended ==
  [][runs' = runs =>
       \A j \in Jobs :
         /\ Follows(j, ClaimedEdges \cup OtherEdges)
         /\ pc[j] \in Terminal => pc'[j] = pc[j]
         /\ ChoiceOf(j)
         /\ (PhaseOf(pc[j]) = "Pending" /\ pc'[j] = "Completed") => list_formats
         /\ (PhaseOf(pc[j]) = "Probing" /\ total_size'[j] # Absent /\ part[PathOf(j)] # Absent) =>
              IF part[PathOf(j)] >= total_size'[j]
                THEN pc'[j] \in Terminal /\ last_io'[j] \in {"ok", "metadata", "rename"}
                ELSE pc'[j] = "chunk" \/ last_io'[j] \in {"metadata", "open"}]_vars

C23_Witness ==
  /\ pc[1] = "Completed" /\ runs = 1
  /\ resume_from[1] # Absent /\ resume_from[1] < total_size[1]
  /\ Cardinality(ranges[1]) = 2 /\ dest[1] = total_size[1] /\ part[1] = Absent

\* C24 (as claimed): the chunk loop comes to its end, and when it ends by its
\* test downloaded is the total, neither less nor more
C24_Claim ==
  /\ \A j \in Jobs : (pc[j] = "chunk") ~> (pc[j] \in Terminal)
  /\ [][\A j \in Jobs :
          (pc[j] = "chunk" /\ (pc'[j] = "Completed" \/ last_io'[j] = "rename")) =>
            downloaded'[j] = total_size[j]]_vars

\* the request job j sends in this step, <<>> when it sends none
Sent(j) ==
  IF pc'[j] = "chunk" /\ (pc[j] # "chunk" \/ downloaded'[j] # downloaded[j])
    THEN <<downloaded'[j], Min(downloaded'[j] + 1048576 - 1, total_size'[j] - 1)>>
    ELSE <<>>

\* C25: a transfer has at most one range request outstanding, the one for
\* [downloaded, min(downloaded + 1 MiB - 1, total - 1)], with start <= end <=
\* total - 1; the next request is sent only after the body of the last one has
\* been written to the file, and starts after every request sent before; the
\* bodies are written in the order of the requests, each at the end of what
\* was written before
C25_Sequential ==
  /\ [](\A j \in Jobs :
          /\ ranges[j] # {} => total_size[j] # Absent
          /\ \A r \in ranges[j] :
               /\ r[1] <= r[2] /\ r[2] <= total_size[j] - 1
               /\ r[2] = Min(r[1] + 1048576 - 1, total_size[j] - 1)
               /\ r[1] <= downloaded[j]
          /\ \A r \in ranges[j] : \A q \in ranges[j] : r[1] = q[1] => r = q
          /\ pc[j] = "chunk" =>
               <<downloaded[j], Min(downloaded[j] + 1048576 - 1, total_size[j] - 1)>> \in ranges[j])
  /\ [][\A j \in Jobs :
          runs' = runs =>
            /\ ranges[j] \subseteq ranges'[j]
            /\ ranges'[j] \ ranges[j] = (IF Sent(j) = <<>> THEN {} ELSE {Sent(j)})
            /\ Sent(j) # <<>> =>
                 /\ \A q \in ranges[j] : q[1] < Sent(j)[1]
                 /\ pc[j] = "chunk" =>
                      /\ downloaded'[j] > downloaded[j]
                      /\ handle[j] = "part" =>
                           part'[PathOf(j)] - part[PathOf(j)] = downloaded'[j] - downloaded[j]
            /\ (pc[j] = "chunk" /\ handle[j] = "part") =>
                 part'[PathOf(j)] = Absent \/ part'[PathOf(j)] >= part[PathOf(j)]]_vars

C25_Witness ==
  /\ pc[1] = "chunk" /\ total_size[1] = 2 * CHUNK_SIZE + 1
  /\ ranges[1] = {<<0, CHUNK_SIZE - 1>>, <<CHUNK_SIZE, 2 * CHUNK_SIZE - 1>>,
                  <<2 * CHUNK_SIZE, 2 * CHUNK_SIZE>>}
  /\ downloaded[1] = 2 * CHUNK_SIZE /\ part[1] = 2 * CHUNK_SIZE

\* C26: in the lifetime of a job downloaded never decreases, and total_size,
\* set once by size discovery, keeps its value until the job has ended
C26_Monotone ==
  [][runs' = runs =>
       \A j \in Jobs :
         /\ downloaded'[j] >= downloaded[j]
         /\ total_size[j] # Absent => total_size'[j] = total_size[j]
         /\ total_size'[j] # total_size[j] =>
              pc[j] \in Discovery /\ total_size'[j] = remote[j]
         /\ downloaded'[j] # downloaded[j] => total_size'[j] # Absent]_vars

C26_Witness ==
  /\ pc[1] = "Failed" /\ last_io[1] = "write" /\ resume_from[1] = 1
  /\ total_size[1] = 2 * CHUNK_SIZE /\ downloaded[1] = CHUNK_SIZE + 1

\* s is a status outside 2xx and other than 206
Refused(s) == s # Absent /\ ~((200 <= s /\ s <= 299) \/ s = 206)

\* C27: in the chunk loop a range response whose status is outside 2xx and
\* is not 206 makes download return DownloadFailed, the error that names the
\* status, with no byte of the response written to a file or added to
\* downloaded and no further request; the loop returns that error for no
\* response with another status
C27_RefusedStatus ==
  /\ [](\A j \in Jobs :
          /\ Refused(status[j]) => pc[j] = "Failed" /\ err[j] = "DownloadFailed"
          /\ (status[j] # Absent /\ ~Refused(status[j])) =>
               pc[j] \in Terminal /\ err[j] # "DownloadFailed")
  /\ [][\A j \in Jobs :
          (pc[j] = "chunk" /\ (Refused(status'[j]) \/ err'[j] = "DownloadFailed")) =>
            /\ Refused(status'[j]) /\ pc'[j] = "Failed" /\ err'[j] = "DownloadFailed"
            /\ downloaded'[j] = downloaded[j]
            /\ part' = part /\ dest' = dest
            /\ ranges'[j] = ranges[j]]_vars

C27_Witness ==
  /\ pc[1] = "Failed" /\ err[1] = "DownloadFailed" /\ status[1] = 300
  /\ total_size[1] = 2 * CHUNK_SIZE
  /\ downloaded[1] = CHUNK_SIZE /\ part[1] = CHUNK_SIZE /\ dest[1] = Absent

\* no other job of the run has the output path of job j
Exclusive(j) == \A i \in Submitted \ {j} : PathOf(i) # PathOf(j)

\* C28: for a job that has its output path to itself, whenever the chunk loop
\* is at its head downloaded is the length of the .part file: downloaded
\* starts at the length of the .part file found (0 for a file newly
\* created), each pass of the loop adds to both the number of bytes written,
\* every range request starts at the end of the file, and the file renamed to
\* the destination has downloaded bytes
C28_DownloadedIsLength ==
  /\ [](\A j \in Jobs :
          (Exclusive(j) /\ pc[j] = "chunk") =>
            /\ downloaded[j] = part[PathOf(j)]
            /\ <<part[PathOf(j)], Min(part[PathOf(j)] + 1048576 - 1, total_size[j] - 1)>>
                 \in ranges[j]
            /\ \A r \in ranges[j] : r[1] <= part[PathOf(j)])
  /\ [][\A j \in Jobs :
          (Exclusive(j) /\ runs' = runs) =>
            /\ (pc[j] \in Discovery /\ pc'[j] = "chunk") =>
                 /\ downloaded'[j] = (IF part[PathOf(j)] # Absent THEN part[PathOf(j)] ELSE 0)
                 /\ part'[PathOf(j)] = downloaded'[j]
            /\ (pc[j] = "chunk" /\ pc'[j] = "chunk") =>
                 part'[PathOf(j)] - part[PathOf(j)] = downloaded'[j] - downloaded[j]
            /\ (pc[j] \in Discovery \cup {"chunk"} /\ pc'[j] = "Completed") =>
                 dest'[PathOf(j)] = downloaded'[j]]_vars

C28_Witness ==
  /\ pc[1] = "chunk" /\ resume_from[1] = 1 /\ total_size[1] = 2 * CHUNK_SIZE
  /\ downloaded[1] = CHUNK_SIZE /\ part[1] = CHUNK_SIZE
  /\ ranges[1] = {<<1, CHUNK_SIZE>>, <<CHUNK_SIZE, 2 * CHUNK_SIZE - 1>>}

\* C29 (as claimed): once the chunk loop has sent a request, and up to the
\* rename that follows the loop, downloaded <= total, and neither the .part
\* file nor the file renamed to the destination is longer than the total
C29_Claim ==
  \A j \in Jobs :
    ranges[j] # {} =>
      /\ downloaded[j] <= total_size[j]
      /\ part[PathOf(j)] # Absent => part[PathOf(j)] <= total_size[j]
      /\ pc[j] = "Completed" => dest[PathOf(j)] <= total_size[j]

\* C30: with a discovered total of 0 download sends no range request, so the
\* end total - 1 of a range is never computed (no range has an end below its
\* start), and it ends at once: with the .part file, the one it found or the
\* empty one it has created, renamed to the destination and Ok returned,
\* unless reading, creating or renaming the file fails
C30_ZeroTotal ==
  \A j \in Jobs :
    /\ \A r \in ranges[j] : 0 <= r[1] /\ r[1] <= r[2]
    /\ total_size[j] = 0 =>
         /\ ranges[j] = {} /\ first_range[j] = <<>>
         /\ pc[j] \in Terminal
         /\ pc[j] = "Completed" =>
              /\ err[j] = "none" /\ part[PathOf(j)] = Absent
              /\ dest[PathOf(j)] = (IF resume_from[j] = Absent THEN 0 ELSE resume_from[j])
         /\ pc[j] = "Failed" =>
              /\ last_io[j] \in {"metadata", "create", "rename"}
              /\ dest[PathOf(j)] = Absent \/ runs > 1

C30_Witness ==
  /\ total_size[1] = 0 /\ resume_from[1] = Absent /\ runs = 1
  /\ pc[1] = "Completed" /\ ranges[1] = {} /\ dest[1] = 0 /\ part[1] = Absent

\* C31: with --audio-only set, select_format returns NoFormats on an empty
\* catalog; on any other catalog it returns, whatever the policy token (a
\* keyword, worst, the id of a format or of none), what the token bestaudio
\* returns without the flag: FormatNotFound when no format is audio-only or
\* has an audio codec, else such a format of maximal audio quality score
C31_AudioOnly ==
  (selected # NotCalled /\ audio_only) =>
    IF formats = <<>> THEN ~selected.ok /\ selected.err = "NoFormats"
    ELSE /\ selected = select_format(formats, BESTAUDIO, FALSE)
         /\ \A tok \in FormatArgs : select_format(formats, tok, TRUE) = selected
         /\ IF AudioAt = {} THEN NotFound
            ELSE /\ selected.ok /\ selected.index \in AudioAt
                 /\ \A k \in AudioAt :
                      audio_quality_score(formats[k])
                        <= audio_quality_score(formats[selected.index])

C31_Witness ==
  /\ audio_only /\ format_str = <<"1", "4", "0">> /\ Len(formats) = 3
  /\ IdAt # {} /\ selected.ok /\ selected.index \notin IdAt
  /\ select_format(formats, WORST, FALSE) # selected
====
